---- MODULE Spec2Model ----
(***************************************************************************)
(* The ephemeral artifact store of main.py: the token_store dictionary,    *)
(* the files under ./pdfs and ./images, the three issue endpoints, the     *)
(* three download endpoints and the background task                        *)
(* cleanup_expired_files.                                                  *)
(*                                                                         *)
(* Time is counted in minutes.  Every endpoint is an `async def` without   *)
(* an await between its reads and writes of token_store, and the sweep of  *)
(* cleanup_expired_files has no await before its sleep, so on the asyncio  *)
(* event loop a handler or a sweep that has started runs to its end before *)
(* another one starts.  The steps inside an eviction (os.remove, then      *)
(* token_store.pop) are kept as separate steps so that the states between  *)
(* them can be examined; `running` and reaper.pc say who holds the loop.   *)
(* Tokens are numbered in the order uuid4 returns them.                    *)
(***************************************************************************)
EXTENDS Integers, Sequences, FiniteSets, TLC

VARIABLES
    token_store,  \* the dict, as the sequence of its items in insertion order
    storage,      \* the paths that exist on disk
    now,          \* the value datetime.utcnow() returns
    uuids,        \* the values uuid.uuid4() has returned so far
    reaper,       \* the task cleanup_expired_files: pc, locals, rest of its sleep
    running,      \* the download handler that is between os.remove and pop
    resp,         \* the HTTP response the last step sent, NoResp if it sent none
    gone          \* history: how many downloads of each token answered 410

vars == <<token_store, storage, now, uuids, reaper, running, resp, gone>>

\* ---- bounds of the model ----
NumTokens == 2
MaxTime == 12

\* ---- program constants (minutes) ----
PDF_TTL == 5
INVOICE_TTL == 10
IMAGE_TTL == 5
SLEEP == 5

PDF_STORAGE == "./pdfs"
IMAGE_STORAGE == "./images"

Tokens == 1..NumTokens
Endpoints == {"pdf", "invoice", "image"}
None == [none |-> TRUE]

\* ---- the dict token_store ----
Keys(d) == {d[i].key : i \in DOMAIN d}

\* token_store.get(token)
Get(d, k) == IF k \in Keys(d) THEN d[CHOOSE i \in DOMAIN d : d[i].key = k] ELSE None

\* token_store[token] = value: replaces the value of an existing key in place
SetItem(d, k, file, expires_at) ==
    LET item == [key |-> k, file |-> file, expires_at |-> expires_at]
    IN  IF k \in Keys(d)
        THEN [i \in DOMAIN d |-> IF d[i].key = k THEN item ELSE d[i]]
        ELSE Append(d, item)

\* a pop that is forgotten: the entry stays
PopForgotten(d, k) == d

\* token_store.pop(token), for a key that is present
Pop(d, k) == SelectSeq(d, LAMBDA e : e.key # k)

\* os.path.join(STORAGE, f"{token}.ext")
Join(dir, token, ext) == [dir |-> dir, name |-> token, ext |-> ext]

\* os.path.exists(path)
Exists(path) == path \in storage

\* a remove that is forgotten: the file stays
RemoveForgotten(path) == storage

\* os.remove(path), for a path that exists
Remove(path) == storage \ {path}

\* the test with >= for >: expired at the instant expires_at
IsExpiredAtEqual(t, expires_at) == t >= expires_at

\* the test off by one minute: not yet expired one minute after expires_at
IsExpiredLate(t, expires_at) == t > expires_at + 1

\* the test the downloads and the sweep apply: now > e["expires_at"]
IsExpired(t, expires_at) == t > expires_at

\* the list without its filter: every token
ExpiredTokensAll(d, t) == [i \in DOMAIN d |-> d[i].key]

\* the list with >= for >
ExpiredTokensAtEqual(d, t) ==
    LET sel == SelectSeq(d, LAMBDA e : t >= e.expires_at)
    IN  [i \in DOMAIN sel |-> sel[i].key]

\* the list cut after its first token, as a loop that breaks would see it
ExpiredTokensFirst(d, t) ==
    LET sel == SelectSeq(d, LAMBDA e : t > e.expires_at)
    IN  IF sel = <<>> THEN <<>> ELSE <<sel[1].key>>

\* [t for t, e in token_store.items() if now > e["expires_at"]]
ExpiredTokens(d, t) ==
    LET sel == SelectSeq(d, LAMBDA e : IsExpired(t, e.expires_at))
    IN  [i \in DOMAIN sel |-> sel[i].key]

\* a generator that may return a value it has returned before
uuid4Repeats == Tokens

\* str(uuid.uuid4()): a value it has not returned before, numbered by rank
uuid4 == {t \in Tokens \ uuids : \A u \in Tokens \ uuids : t <= u}

\* no handler and no sweep is in the middle of its run
LoopFree == running = None /\ reaper.pc \in {"sleep", "dead"}

\* ---- HTTP responses ----
NoResp == [status |-> 0, url |-> None, file |-> None, media_type |-> "", filename |-> ""]

\* {"download_url": ".../<endpoint>/download/<token>"}
UrlResponse(ep, token) ==
    [status |-> 200, url |-> [endpoint |-> ep, token |-> token], file |-> None,
     media_type |-> "", filename |-> ""]

\* FileResponse(path, media_type=, filename=)
FileResponse(path, media_type, filename) ==
    [status |-> 200, url |-> None, file |-> path, media_type |-> media_type,
     filename |-> filename]

\* raise HTTPException(status_code=)
HTTPException(status) ==
    [status |-> status, url |-> None, file |-> None, media_type |-> "", filename |-> ""]

\* media_type= and filename= of each download endpoint's FileResponse
MediaType(ep) == IF ep = "image" THEN "image/png" ELSE "application/pdf"

FileName(ep) ==
    CASE ep = "pdf" -> "reimbursement_form.pdf"
      [] ep = "invoice" -> "invoice.pdf"
      [] ep = "image" -> "generated.png"

Init ==
    /\ token_store = <<>>
    /\ storage = {}
    /\ now = 0
    /\ uuids = {}
    /\ reaper = [pc |-> "sleep", sleep_left |-> 0, now |-> 0, expired_tokens |-> <<>>]
    /\ running = None
    /\ resp = NoResp
    /\ gone = [t \in Tokens |-> 0]

\* ---- the issue endpoints ----
\* the common body: draw the token, write the file, insert the entry, answer
\* with the download URL of the matching endpoint.  Issues stop early enough
\* for every expires_at to lie before MaxTime.
Insert(kind, dir, ext, ttl, token) ==
    /\ LoopFree
    /\ now + ttl < MaxTime
    /\ LET filename == Join(dir, token, ext)
       IN  /\ storage' = storage \cup {filename}
           /\ token_store' = SetItem(token_store, token, filename, now + ttl)
    /\ uuids' = uuids \cup {token}
    /\ resp' = UrlResponse(kind, token)
    /\ UNCHANGED <<now, reaper, running, gone>>

\* an issue endpoint, with the token uuid4 gives it
Issue(kind, dir, ext, ttl, token) ==
    /\ token \in uuid4
    /\ Insert(kind, dir, ext, ttl, token)

prepare_pdf(token) == Issue("pdf", PDF_STORAGE, "pdf", PDF_TTL, token)

\* the invoice endpoint with the TTL copied from prepare_pdf
create_invoiceShortTTL(token) == Issue("invoice", PDF_STORAGE, "pdf", PDF_TTL, token)

create_invoice(token) == Issue("invoice", PDF_STORAGE, "pdf", INVOICE_TTL, token)

generate_image(token) == Issue("image", IMAGE_STORAGE, "png", IMAGE_TTL, token)

\* ---- the download endpoints ----
\* a download that deletes the file it has served (a one-time link)
DownloadConsumes(ep, token) ==
    /\ LoopFree
    /\ LET entry == Get(token_store, token)
       IN  IF entry = None \/ ~Exists(entry.file)
           THEN /\ resp' = HTTPException(404)
                /\ UNCHANGED <<storage, running>>
           ELSE IF IsExpired(now, entry.expires_at)
           THEN /\ storage' = Remove(entry.file)
                /\ running' = [endpoint |-> ep, token |-> token]
                /\ resp' = NoResp
           ELSE /\ resp' = FileResponse(entry.file, MediaType(ep), FileName(ep))
                /\ storage' = Remove(entry.file)
                /\ UNCHANGED running
    /\ UNCHANGED <<token_store, now, uuids, reaper, gone>>

\* the first step of a download: the lookup, and either the answer (404 or
\* the file) or, for an expired entry, os.remove
Download(ep, token) ==
    /\ LoopFree
    /\ LET entry == Get(token_store, token)
       IN  IF entry = None \/ ~Exists(entry.file)
           THEN /\ resp' = HTTPException(404)
                /\ UNCHANGED <<storage, running>>
           ELSE IF IsExpired(now, entry.expires_at)
           THEN /\ storage' = Remove(entry.file)
                /\ running' = [endpoint |-> ep, token |-> token]
                /\ resp' = NoResp
           ELSE /\ resp' = FileResponse(entry.file, MediaType(ep), FileName(ep))
                /\ UNCHANGED <<storage, running>>
    /\ UNCHANGED <<token_store, now, uuids, reaper, gone>>

download_pdf(token) == Download("pdf", token)

download_invoice(token) == Download("invoice", token)

download_image(token) == Download("image", token)

\* the second step of a download of an expired entry: token_store.pop(token)
\* and HTTPException(410)
DownloadPop ==
    /\ running # None
    /\ token_store' = Pop(token_store, running.token)
    /\ resp' = HTTPException(410)
    /\ gone' = [gone EXCEPT ![running.token] = @ + 1]
    /\ running' = None
    /\ UNCHANGED <<storage, now, uuids, reaper>>

\* ---- the background task cleanup_expired_files ----
\* the sleep is over: read the clock and list the expired tokens
CleanupWake ==
    /\ reaper.pc = "sleep"
    /\ running = None
    /\ reaper.sleep_left = 0
    /\ reaper' = [pc |-> "loop", sleep_left |-> 0, now |-> now,
                  expired_tokens |-> ExpiredTokens(token_store, now)]
    /\ resp' = NoResp
    /\ UNCHANGED <<token_store, storage, now, uuids, running, gone>>

\* one turn of the for loop, up to os.remove
CleanupRemove ==
    /\ reaper.pc = "loop"
    /\ reaper.expired_tokens # <<>>
    /\ LET file_path == Get(token_store, Head(reaper.expired_tokens)).file
       IN  storage' = IF Exists(file_path) THEN Remove(file_path) ELSE storage
    /\ reaper' = [reaper EXCEPT !.pc = "pop"]
    /\ resp' = NoResp
    /\ UNCHANGED <<token_store, now, uuids, running, gone>>

\* the rest of the turn: token_store.pop(t)
CleanupPop ==
    /\ reaper.pc = "pop"
    /\ token_store' = Pop(token_store, Head(reaper.expired_tokens))
    /\ reaper' = [reaper EXCEPT !.pc = "loop",
                                !.expired_tokens = Tail(reaper.expired_tokens)]
    /\ resp' = NoResp
    /\ UNCHANGED <<storage, now, uuids, running, gone>>

\* the sweep without its `while True`: the task ends after one sweep
CleanupReturn ==
    /\ reaper.pc = "loop"
    /\ reaper.expired_tokens = <<>>
    /\ reaper' = [pc |-> "dead", sleep_left |-> 0, now |-> 0, expired_tokens |-> <<>>]
    /\ resp' = NoResp
    /\ UNCHANGED <<token_store, storage, now, uuids, running, gone>>

\* the list is exhausted: asyncio.sleep(300); the locals are dead until the
\* next turn of `while True` assigns them
CleanupSleep ==
    /\ reaper.pc = "loop"
    /\ reaper.expired_tokens = <<>>
    /\ reaper' = [pc |-> "sleep", sleep_left |-> SLEEP, now |-> 0,
                  expired_tokens |-> <<>>]
    /\ resp' = NoResp
    /\ UNCHANGED <<token_store, storage, now, uuids, running, gone>>

\* ---- the clock ----
\* a minute passes: the clock advances and the timer of asyncio.sleep runs
\* down.  The clock stops at MaxTime, which stands for every later time:
\* every expires_at is smaller and no issue reads the clock from there on.
Tick ==
    /\ LoopFree
    /\ now < MaxTime \/ reaper.sleep_left > 0
    /\ now' = IF now < MaxTime THEN now + 1 ELSE now
    /\ reaper' = [reaper EXCEPT !.sleep_left = IF @ > 0 THEN @ - 1 ELSE 0]
    /\ resp' = NoResp
    /\ UNCHANGED <<token_store, storage, uuids, running, gone>>

\* ---- errors of the storage and of the generators ----
\* os.remove raises OSError:
\* in a download the exception leaves the handler: the framework answers 500
DownloadRemoveFails(ep, token) ==
    /\ LoopFree
    /\ LET entry == Get(token_store, token)
       IN  /\ entry # None
           /\ Exists(entry.file)
           /\ IsExpired(now, entry.expires_at)
    /\ resp' = HTTPException(500)
    /\ UNCHANGED <<token_store, storage, now, uuids, reaper, running, gone>>

\* in the sweep the exception leaves the coroutine: the task is finished
CleanupRemoveFails ==
    /\ reaper.pc = "loop"
    /\ reaper.expired_tokens # <<>>
    /\ Exists(Get(token_store, Head(reaper.expired_tokens)).file)
    /\ reaper' = [reaper EXCEPT !.pc = "dead"]
    /\ resp' = NoResp
    /\ UNCHANGED <<token_store, storage, now, uuids, running, gone>>

Next ==
    \/ \E token \in Tokens : prepare_pdf(token)
    \/ \E token \in Tokens : create_invoice(token)
    \/ \E token \in Tokens : generate_image(token)
    \/ \E token \in Tokens : download_pdf(token)
    \/ \E token \in Tokens : download_invoice(token)
    \/ \E token \in Tokens : download_image(token)
    \/ DownloadPop
    \/ CleanupWake
    \/ CleanupRemove
    \/ CleanupPop
    \/ CleanupSleep
    \/ Tick

Spec == Init /\ [][Next]_vars

\* the clock keeps advancing, the event loop keeps scheduling the task
\* cleanup_expired_files and lets a handler that has started finish; no
\* download is ever required to be made
Fairness ==
    /\ WF_vars(Tick)
    /\ WF_vars(CleanupWake)
    /\ WF_vars(CleanupRemove)
    /\ WF_vars(CleanupPop)
    /\ WF_vars(CleanupSleep)
    /\ WF_vars(DownloadPop)

LiveSpec == Init /\ [][Next]_vars /\ Fairness

\* ---- uuid4 returning a value that is a key of token_store ----
\* an issue endpoint whose token collides with the token of a live entry
IssueDuplicate(kind, dir, ext, ttl, token) ==
    /\ token \in Keys(token_store)
    /\ Insert(kind, dir, ext, ttl, token)

NextCollide ==
    \/ Next
    \/ \E token \in Tokens : IssueDuplicate("pdf", PDF_STORAGE, "pdf", PDF_TTL, token)
    \/ \E token \in Tokens : IssueDuplicate("invoice", PDF_STORAGE, "pdf", INVOICE_TTL, token)
    \/ \E token \in Tokens : IssueDuplicate("image", IMAGE_STORAGE, "png", IMAGE_TTL, token)

SpecCollide == Init /\ [][NextCollide]_vars

\* ---- an issue endpoint that fails ----
\* the generator raises after the token is drawn: before it opens the file
\* (reportlab rejects the input, open() fails) or while it writes it
\* (f.write or doc.build raises OSError), which leaves the file it opened.
\* Nothing removes the file and the exception leaves the handler.
IssueFails(kind, dir, ext, token, written) ==
    /\ LoopFree
    /\ token \in uuid4
    /\ uuids' = uuids \cup {token}
    /\ storage' = IF written THEN storage \cup {Join(dir, token, ext)} ELSE storage
    /\ resp' = HTTPException(500)
    /\ UNCHANGED <<token_store, now, reaper, running, gone>>

prepare_pdf_fails(token, written) == IssueFails("pdf", PDF_STORAGE, "pdf", token, written)

create_invoice_fails(token, written) ==
    IssueFails("invoice", PDF_STORAGE, "pdf", token, written)

generate_image_fails(token, written) ==
    IssueFails("image", IMAGE_STORAGE, "png", token, written)

\* generate_image fails before it draws a token: the image API answers an
\* error or returns no artifact
ImageNotReturned ==
    /\ LoopFree
    /\ resp' = HTTPException(500)
    /\ UNCHANGED <<token_store, storage, now, uuids, reaper, running, gone>>

NextFault ==
    \/ Next
    \/ \E token \in Tokens, written \in BOOLEAN : prepare_pdf_fails(token, written)
    \/ \E token \in Tokens, written \in BOOLEAN : create_invoice_fails(token, written)
    \/ \E token \in Tokens, written \in BOOLEAN : generate_image_fails(token, written)
    \/ ImageNotReturned
    \/ \E ep \in Endpoints, token \in Tokens : DownloadRemoveFails(ep, token)
    \/ CleanupRemoveFails

SpecFault == Init /\ [][NextFault]_vars

\* ---- what the claims speak of ----
Entry(t) == Get(token_store, t)

\* the files on disk that were written for token t
FilesOf(t) == {f \in storage : f.name = t}

\* the tokens whose entry has been evicted
Evicted == uuids \ Keys(token_store)

\* the last step was the issue of token t by the endpoint of kind
JustIssued(kind, t) == resp.url # None /\ resp.url.endpoint = kind /\ resp.url.token = t

\* C1: a download of a token made right after its issue, through any of the
\* three download endpoints, returns the stored file with the content type
\* and the display filename of the artifact that was issued.
C1_AnyEndpointReturnsArtifact ==
    [][\A kind \in Endpoints, ep \in Endpoints, t \in Tokens :
         (JustIssued(kind, t) /\ Download(ep, t))
         => resp' = FileResponse(Entry(t).file, MediaType(kind), FileName(kind))]_vars

\* C2: a download answers 404 exactly when the token has no entry, answers
\* 410 exactly when it has an entry and now > expires_at (the handler then
\* goes through the eviction, whose end is the 410), and serves the file in
\* every other case.
C2_StatusByEntry ==
    [][/\ \A ep \in Endpoints, t \in Tokens :
            Download(ep, t) =>
              /\ (resp'.status = 404) <=> (Entry(t) = None)
              /\ (running' # None) <=> (Entry(t) # None /\ now > Entry(t).expires_at)
              /\ (resp'.status = 200) <=> (Entry(t) # None /\ now <= Entry(t).expires_at)
              /\ (resp'.status = 200) => (resp'.file = Entry(t).file)
       /\ DownloadPop => (resp'.status = 410 /\ now > Entry(running.token).expires_at)
       /\ (resp'.status = 410) => running # None]_vars

\* a download has answered 410 while another token, not yet expired, is live
C2_Witness ==
    /\ resp = HTTPException(410)
    /\ \E t \in Tokens : gone[t] = 1 /\ Entry(t) = None
    /\ \E t \in Tokens : Entry(t) # None /\ now <= Entry(t).expires_at

\* C3: the first download or sweep that runs after a token's expiry removes
\* its file and its entry, a download doing so answers 410, every download
\* of the token after that answers 404, and no token is answered 410 twice.
C3_EvictedOnceThen404 ==
    /\ [](\A t \in Tokens : gone[t] <= 1)
    /\ [][/\ \A ep \in Endpoints, t \in Tokens :
               Download(ep, t) =>
                 /\ (Entry(t) # None /\ now > Entry(t).expires_at)
                      => (running' # None /\ running'.token = t /\ FilesOf(t)' = {})
                 /\ t \in Evicted => resp' = HTTPException(404)
          /\ DownloadPop =>
               /\ resp' = HTTPException(410)
               /\ \A t \in Tokens :
                      t = running.token => (t \in Evicted' /\ FilesOf(t)' = {})
          /\ CleanupSleep =>
               \A t \in Tokens :
                   (Entry(t) # None => reaper.now <= Entry(t).expires_at)
          /\ \A t \in Evicted : t \in Evicted' /\ FilesOf(t)' = {}]_vars

\* a token evicted by a download that answered 410 is downloaded again: 404
C3_Witness ==
    /\ resp = HTTPException(404)
    /\ \E t \in Evicted : gone[t] = 1
    /\ \E t \in Evicted : gone[t] = 0

\* C4: every download made once now >= expires_at, the instant of equality
\* included, does not serve the file.
C4_NotServedFromExpiresAt ==
    [][\A ep \in Endpoints, t \in Tokens :
         (Download(ep, t) /\ Entry(t) # None /\ now >= Entry(t).expires_at)
         => resp'.status # 200]_vars

\* C4 as amended: every download made once now > expires_at does not serve
\* the file: the handler evicts the entry and answers 410 or, the entry
\* being gone, answers 404.
C4_NotServedAfterExpiresAt ==
    [][/\ \A ep \in Endpoints, t \in Tokens :
            (Download(ep, t) /\ (Entry(t) = None \/ now > Entry(t).expires_at))
            => /\ resp'.file = None
               /\ resp'.status = 404 \/ (running' # None /\ running'.token = t)
       /\ \A t \in Tokens : (Entry(t) # None /\ Entry(t)' = None) => now > Entry(t).expires_at
       /\ DownloadPop => resp'.status = 410]_vars

\* a download made one minute after expires_at is in its eviction
C4_Witness ==
    /\ running # None
    /\ Entry(running.token) # None
    /\ now = Entry(running.token).expires_at + 1

\* C5: once issued, an entry and its file stay until the token has expired,
\* whatever other issues, downloads and sweeps do, and every download of the
\* token made while now <= expires_at serves its file.
C5_ServedWithinTTL ==
    [][\A t \in Tokens :
         (Entry(t) # None /\ now <= Entry(t).expires_at) =>
           /\ Entry(t)' = Entry(t)
           /\ Exists(Entry(t).file)'
           /\ \A ep \in Endpoints :
                Download(ep, t)
                => resp' = FileResponse(Entry(t).file, MediaType(ep), FileName(ep))]_vars

\* a token is served at the last minute of its TTL, after another token has
\* been evicted
C5_Witness ==
    /\ resp.status = 200
    /\ \E t \in Tokens : /\ Entry(t) # None
                         /\ resp.file = Entry(t).file
                         /\ now = Entry(t).expires_at
    /\ Evicted # {}

\* the token whose eviction is between os.remove and pop
Evicting ==
    (IF running # None THEN {running.token} ELSE {})
    \cup (IF reaper.pc = "pop" THEN {Head(reaper.expired_tokens)} ELSE {})

\* C6: every token of token_store refers to a file that exists and every
\* file belongs to a token of token_store; only the token whose eviction is
\* under way has its entry without its file, so that an eviction that has
\* ended has removed both.
C6_InSync ==
    /\ \A t \in Keys(token_store) \ Evicting : Exists(Entry(t).file)
    /\ \A t \in Evicting : t \in Keys(token_store) /\ FilesOf(t) = {}
    /\ \A f \in storage : f.name \in Keys(token_store) /\ Entry(f.name).file = f

\* one token has been evicted by a download, one by a sweep
C6_Witness ==
    /\ LoopFree
    /\ \E t \in Evicted : gone[t] = 1
    /\ \E t \in Evicted : gone[t] = 0
    /\ resp = NoResp

\* C7: no state, the states in the middle of a sweep or of a lazy eviction
\* included, has an entry with now <= expires_at whose file does not exist.
C7_UnexpiredHasFile ==
    \A i \in DOMAIN token_store :
        now <= token_store[i].expires_at => Exists(token_store[i].file)

\* in the middle of a sweep: an expired entry without its file beside an
\* unexpired entry
C7_Witness ==
    /\ reaper.pc = "pop"
    /\ \E i \in DOMAIN token_store : ~Exists(token_store[i].file)
    /\ \E i \in DOMAIN token_store : now <= token_store[i].expires_at

\* C8: every entry added to token_store is eventually evicted, entry and
\* file, when the clock keeps advancing and the reaper keeps being scheduled,
\* even if the token is never downloaded.
C8_EventuallyEvicted ==
    \A t \in Tokens :
        (t \in Keys(token_store)) ~> (t \in Evicted /\ FilesOf(t) = {})

\* a token has been evicted that no download answered 410 for: the sweep
\* removed it
C8_Witness ==
    /\ \E t \in Evicted : gone[t] = 0 /\ FilesOf(t) = {}
    /\ reaper.pc = "loop"
    /\ reaper.expired_tokens = <<>>

\* C9: a storage error on the delete of an expired entry's file during a
\* sweep is swallowed and the reaper keeps running.
C9_ReaperSurvives == reaper.pc # "dead"

\* C10: the file path and expires_at recorded for a token do not change
\* from the creation of its entry to its eviction.
C10_EntryImmutable ==
    [][\A t \in Tokens :
         (Entry(t) # None /\ Entry(t)' # None) => Entry(t)' = Entry(t)]_vars

\* an entry has outlived an issue, a download and an eviction of another token
C10_Witness ==
    /\ resp.status = 200
    /\ resp.file # None
    /\ \E t \in Tokens : Entry(t) # None /\ resp.file = Entry(t).file /\ now > 0
    /\ \E t \in Evicted : gone[t] = 1

\* C11: every entry is created with expires_at = the clock at the issue
\* plus the TTL, 5 minutes for prepare_pdf and generate_image and 10 minutes
\* for create_invoice, so that expires_at lies after the time of creation.
C11_ExpiresAtIsNowPlusTTL ==
    [][\A t \in Tokens :
         (Entry(t) = None /\ Entry(t)' # None) =>
           /\ resp'.url # None
           /\ resp'.url.token = t
           /\ resp'.url.endpoint \in {"pdf", "image"} => Entry(t)'.expires_at = now + 5
           /\ resp'.url.endpoint = "invoice" => Entry(t)'.expires_at = now + 10
           /\ Entry(t)'.expires_at > now]_vars

\* an invoice has just been issued, after the clock has advanced, beside a
\* reimbursement form or an image issued earlier
C11_Witness ==
    /\ now > 0
    /\ \E t \in Tokens : JustIssued("invoice", t) /\ Entry(t).expires_at = now + 10
    /\ \E t \in Tokens : Entry(t) # None /\ Entry(t).expires_at < now + 5

\* Every token the sweep has listed and not yet handled is still a key of
\* token_store with its file on disk (the file of the token between
\* os.remove and pop excepted): no handler runs between the listing and the
\* deletes, so token_store[t] and token_store.pop(t) of the sweep never
\* meet a token that has vanished.
SweepListIsLive ==
    reaper.pc \in {"loop", "pop"} =>
        \A i \in DOMAIN reaper.expired_tokens :
            /\ reaper.expired_tokens[i] \in Keys(token_store)
            /\ \/ Exists(Entry(reaper.expired_tokens[i]).file)
               \/ (reaper.pc = "pop" /\ i = 1)

\* the sweep is between its reading of the clock and its sleep
Sweeping == reaper.pc \in {"loop", "pop"}

\* C13: a sweep that has read the clock value `now` evicts exactly the
\* entries with now > expires_at: its steps leave every entry with
\* now <= expires_at and its file as they were, and when it completes no
\* entry with now > expires_at and no file of an evicted token remain.
C13_SweepEvictsExactlyExpired ==
    [][/\ CleanupWake => reaper'.now = now
       /\ Sweeping =>
            \A t \in Tokens :
                (Entry(t) # None /\ reaper.now <= Entry(t).expires_at)
                => (Entry(t)' = Entry(t) /\ Exists(Entry(t).file)')
       /\ CleanupSleep =>
            /\ \A t \in Tokens : Entry(t) # None => reaper.now <= Entry(t).expires_at
            /\ \A t \in Evicted : FilesOf(t) = {}
            /\ token_store' = token_store /\ storage' = storage]_vars

\* the end of a sweep that has evicted a token and kept an entry that
\* expires at the very minute the sweep read
C13_Witness ==
    /\ reaper.pc = "loop"
    /\ reaper.expired_tokens = <<>>
    /\ \E t \in Evicted : gone[t] = 0
    /\ \E t \in Tokens : Entry(t) # None /\ Entry(t).expires_at = reaper.now
                         /\ Exists(Entry(t).file)

\* C14: a download that serves the file or answers 404 changes neither
\* token_store nor the storage, so a token can be downloaded again and again
\* until it expires and a token never issued answers 404 at any time; only
\* a download that goes on to answer 410 changes them.
C14_DownloadReadsOnly ==
    [][\A ep \in Endpoints, t \in Tokens :
         Download(ep, t) =>
           /\ resp'.status \in {200, 404}
                => (token_store' = token_store /\ storage' = storage)
           /\ (token_store' # token_store \/ storage' # storage)
                => (running' # None /\ now > Entry(t).expires_at)
           /\ t \notin uuids => resp' = HTTPException(404)]_vars

\* a token never issued has been answered 404 while every issued token is
\* still in token_store
C14_Witness ==
    /\ resp = HTTPException(404)
    /\ Tokens \ uuids # {}
    /\ Evicted = {}
    /\ token_store # <<>>
    /\ now > 0

\* C15: an issue whose token is already a key of token_store is rejected
\* and leaves the existing entry and its file as they were.
C15_DuplicateTokenRejected ==
    [][\A t \in Tokens :
         (/\ Entry(t) # None
          /\ vars' # vars
          /\ resp'.url # None
          /\ resp'.url.token = t)
         => /\ resp'.status # 200
            /\ Entry(t)' = Entry(t)
            /\ FilesOf(t)' = FilesOf(t)]_vars

\* C16: an issue endpoint whose generation or write fails adds no entry and
\* leaves no file that no token refers to: every file on storage is the file
\* of an entry of token_store.
C16_NoOrphanFile ==
    \A f \in storage : \E t \in Keys(token_store) : Entry(t).file = f

====
